---------------------------- MODULE Spec2Model ----------------------------
(***************************************************************************)
(* Model of the experiment design tool: the sample-size calculation core   *)
(* (core/calculator.py), the post-experiment analysis                      *)
(* (components/post_experiment_analysis.py) and the sample-size and        *)
(* runtime section of the design page (components/experiment_designer.py)  *)
(* with its required fields and the final design, the calculator page      *)
(* (components/sample_calculator.py), and the session state both pages     *)
(* keep through core/session_manager.py.                                   *)
(*                                                                         *)
(* Floating-point quantities are fixed-point integers: probabilities,      *)
(* rates, effects and standard errors in units of 1/FP, normal and         *)
(* Student-t statistics in units of 1/ZS.  The IEEE special values the     *)
(* code can produce (NaN, +inf, -inf) are kept as distinct kinds of value, *)
(* and every Python exception a call can raise is an outcome of the call.  *)
(***************************************************************************)
EXTENDS Integers, Sequences, FiniteSets, TLC

VARIABLES op, args, result, form_data, calculator_sample_size, calculator_test_type

vars == <<op, args, result, form_data, calculator_sample_size, calculator_test_type>>

\* st.session_state.calculator_sample_size and calculator_test_type
calculator_state == <<calculator_sample_size, calculator_test_type>>

(***************************************************************************)
(* Fixed-point scales: FP for probabilities and rates, ZS for z and t      *)
(* statistics.                                                             *)
(***************************************************************************)
FP == 10^4

ZS == 10^3

(***************************************************************************)
(* Bounds of the model.                                                    *)
(***************************************************************************)
MaxSample == 12
MaxDaily == 5
MaxBaseline == 4
MaxLift == 6
MaxMean == 2
MaxStd == 2
MaxN == 3

\* grids of the percentage inputs, in FP units: 25 and 5 percentage points
BaselineStep == 25 * 100

LiftStep == 5 * 100

Baselines == {k * BaselineStep : k \in 0..MaxBaseline}

Lifts == {k * LiftStep : k \in (-MaxLift)..MaxLift}

\* st.number_input(min_value=0.01, max_value=0.10) and (0.70, 0.99)
Alphas == {100, 500, 1000}

Powers == {7000, 8000, 9900}

ExperimentTypes == {"Superiority", "Non-inferiority"}

\* MDE or margin of a rate (0.05 and 1.0) and of a mean (0.5 and 2.0)
RateThresholds == {500, 10000}

MeanThresholds == {500, 2000}

(***************************************************************************)
(* Outcomes of a call: a returned integer or a raised exception.  The kind *)
(* "invalid" is an explicit invalid-input result.                          *)
(***************************************************************************)
Return(n) == [kind |-> "return", exc |-> "", n |-> n]

Raise(e) == [kind |-> "raise", exc |-> e, n |-> 0]

NoResult == [kind |-> "none", exc |-> "", n |-> 0]

\* math.ceil(a / b) for b > 0
Ceil(a, b) == -((-a) \div b)

RECURSIVE SqrtSearch(_, _, _)
SqrtSearch(x, lo, hi) ==
    IF lo >= hi THEN lo
    ELSE LET mid == (lo + hi + 1) \div 2
         IN IF mid * mid <= x THEN SqrtSearch(x, mid, hi)
                              ELSE SqrtSearch(x, lo, mid - 1)

\* math.sqrt(x) for x >= 0, rounded down; x in units of 1/FP^2 gives 1/FP
Sqrt(x) == SqrtSearch(x, 0, 46340)

(***************************************************************************)
(* scipy.stats.norm.ppf at the probabilities the inputs produce, argument  *)
(* in FP units, value in ZS units.                                         *)
(***************************************************************************)
norm_ppf(q) ==
    CASE q = 9950 -> 2576
      [] q = 9900 -> 2326
      [] q = 9750 -> 1960
      [] q = 9500 -> 1645
      [] q = 9000 -> 1282
      [] q = 8000 -> 842
      [] q = 7500 -> 674
      [] q = 7000 -> 524
      [] q = 6000 -> 253
      [] q = 5000 -> 0
      [] q = 3000 -> -524
      [] q = 2500 -> -674
      [] q = 2000 -> -842
      [] q = 1000 -> -1282
      [] q = 100 -> -2326

(***************************************************************************)
(* SampleSizeCalculator.calculate_proportions.  math.sqrt raises           *)
(* ValueError on a negative argument; the numerator is a numpy float, so   *)
(* dividing it by 0.0 gives inf (or nan for 0/0) and math.ceil then raises *)
(* OverflowError (ValueError).                                             *)
(***************************************************************************)
calculate_proportions_one_sided(p1, p2, alpha, power) ==
    LET z_alpha == norm_ppf(FP - alpha)
        z_beta == norm_ppf(power)
        pooled_var == ((p1 + p2) * (2 * FP - (p1 + p2))) \div 2
        group_var == p1 * (FP - p1) + p2 * (FP - p2)
        root == (z_alpha * Sqrt(pooled_var) + z_beta * Sqrt(group_var)) \div ZS
        numerator == root * root
        denominator == (p1 - p2) * (p1 - p2)
    IN  IF pooled_var < 0 \/ group_var < 0 THEN Raise("ValueError")
        ELSE IF denominator = 0
             THEN (IF numerator = 0 THEN Raise("ValueError")
                                    ELSE Raise("OverflowError"))
             ELSE Return(Ceil(numerator, denominator))

calculate_proportions_baseline_variance(p1, p2, alpha, power) ==
    LET z_alpha == norm_ppf(FP - alpha \div 2)
        z_beta == norm_ppf(power)
        pooled_var == ((p1 + p2) * (2 * FP - (p1 + p2))) \div 2
        group_var == 2 * p1 * (FP - p1)
        root == (z_alpha * Sqrt(pooled_var) + z_beta * Sqrt(group_var)) \div ZS
        numerator == root * root
        denominator == (p1 - p2) * (p1 - p2)
    IN  IF pooled_var < 0 \/ group_var < 0 THEN Raise("ValueError")
        ELSE IF denominator = 0
             THEN (IF numerator = 0 THEN Raise("ValueError")
                                    ELSE Raise("OverflowError"))
             ELSE Return(Ceil(numerator, denominator))

calculate_proportions(p1, p2, alpha, power) ==
    LET z_alpha == norm_ppf(FP - alpha \div 2)
        z_beta == norm_ppf(power)
        pooled_var == ((p1 + p2) * (2 * FP - (p1 + p2))) \div 2
        group_var == p1 * (FP - p1) + p2 * (FP - p2)
        root == (z_alpha * Sqrt(pooled_var) + z_beta * Sqrt(group_var)) \div ZS
        numerator == root * root
        denominator == (p1 - p2) * (p1 - p2)
    IN  IF pooled_var < 0 \/ group_var < 0 THEN Raise("ValueError")
        ELSE IF denominator = 0
             THEN (IF numerator = 0 THEN Raise("ValueError")
                                    ELSE Raise("OverflowError"))
             ELSE Return(Ceil(numerator, denominator))

(***************************************************************************)
(* SampleSizeCalculator.calculate_continuous.  abs(mean1 - mean2) / std is *)
(* a division of Python floats: ZeroDivisionError for std = 0.  A zero     *)
(* effect size divides a numpy float by 0.0: inf, then OverflowError.      *)
(***************************************************************************)
calculate_continuous(mean1, mean2, std, alpha, power) ==
    LET z_alpha == norm_ppf(FP - alpha \div 2)
        z_beta == norm_ppf(power)
        diff == IF mean1 >= mean2 THEN mean1 - mean2 ELSE mean2 - mean1
        effect_size == IF std > 0 THEN (diff * FP) \div std
                                  ELSE -((diff * FP) \div (-std))
        abs_effect == IF effect_size >= 0 THEN effect_size ELSE -effect_size
        ratio == ((z_alpha + z_beta) * FP) \div abs_effect
    IN  IF std = 0 THEN Raise("ZeroDivisionError")
        ELSE IF effect_size = 0 THEN Raise("OverflowError")
        ELSE Return(Ceil(2 * ratio * ratio, ZS * ZS))

(***************************************************************************)
(* SampleSizeCalculator.calculate_non_inferiority.                         *)
(***************************************************************************)
calculate_non_inferiority_two_sided(p1, delta, alpha, power) ==
    LET z_alpha == norm_ppf(FP - alpha \div 2)
        z_beta == norm_ppf(power)
        p2 == p1 - delta
        pooled_var == ((p1 + p2) * (2 * FP - (p1 + p2))) \div 2
        group_var == p1 * (FP - p1) + p2 * (FP - p2)
        root == (z_alpha * Sqrt(pooled_var) + z_beta * Sqrt(group_var)) \div ZS
        numerator == root * root
        denominator == delta * delta
    IN  IF pooled_var < 0 \/ group_var < 0 THEN Raise("ValueError")
        ELSE IF denominator = 0
             THEN (IF numerator = 0 THEN Raise("ValueError")
                                    ELSE Raise("OverflowError"))
             ELSE Return(Ceil(numerator, denominator))

calculate_non_inferiority_raised(p1, delta, alpha, power) ==
    LET z_alpha == norm_ppf(FP - alpha)
        z_beta == norm_ppf(power)
        p2 == p1 + delta
        pooled_var == ((p1 + p2) * (2 * FP - (p1 + p2))) \div 2
        group_var == p1 * (FP - p1) + p2 * (FP - p2)
        root == (z_alpha * Sqrt(pooled_var) + z_beta * Sqrt(group_var)) \div ZS
        numerator == root * root
        denominator == delta * delta
    IN  IF pooled_var < 0 \/ group_var < 0 THEN Raise("ValueError")
        ELSE IF denominator = 0
             THEN (IF numerator = 0 THEN Raise("ValueError")
                                    ELSE Raise("OverflowError"))
             ELSE Return(Ceil(numerator, denominator))

calculate_non_inferiority(p1, delta, alpha, power) ==
    LET z_alpha == norm_ppf(FP - alpha)
        z_beta == norm_ppf(power)
        p2 == p1 - delta
        pooled_var == ((p1 + p2) * (2 * FP - (p1 + p2))) \div 2
        group_var == p1 * (FP - p1) + p2 * (FP - p2)
        root == (z_alpha * Sqrt(pooled_var) + z_beta * Sqrt(group_var)) \div ZS
        numerator == root * root
        denominator == delta * delta
    IN  IF pooled_var < 0 \/ group_var < 0 THEN Raise("ValueError")
        ELSE IF denominator = 0
             THEN (IF numerator = 0 THEN Raise("ValueError")
                                    ELSE Raise("OverflowError"))
             ELSE Return(Ceil(numerator, denominator))

(***************************************************************************)
(* SampleSizeCalculator.estimate_runtime                                   *)
(***************************************************************************)
estimate_runtime_floor(sample_size, daily_users) ==
    IF daily_users > 0 THEN sample_size \div daily_users ELSE 0

estimate_runtime(sample_size, daily_users) ==
    IF daily_users > 0 THEN Ceil(sample_size, daily_users) ELSE 0

(***************************************************************************)
(* Floating-point values of the analysis: a finite number (fixed point),   *)
(* NaN, or a signed infinity.                                              *)
(***************************************************************************)
MS == 10^3

Num(v) == [k |-> "num", v |-> v]

NaN == [k |-> "nan", v |-> 0]

PosInf == [k |-> "inf", v |-> 1]

NegInf == [k |-> "inf", v |-> -1]

\* an optional argument: a value or Python's None
Some(v) == [some |-> TRUE, v |-> v]

None == [some |-> FALSE, v |-> 0]

Signed(x) == x

Abs(x) == IF x >= 0 THEN x ELSE -x

\* np.sqrt of a Python float: NaN (with a warning) for a negative argument
np_sqrt(x) == IF x < 0 THEN NaN ELSE Num(Sqrt(x))

\* a / b where b is a numpy float: division by zero gives inf or NaN, never
\* an exception; the quotient is scaled by scale
np_divide_magnitude(a, b, scale) ==
    IF b.k = "nan" THEN NaN
    ELSE IF b.v = 0
         THEN (IF a = 0 THEN NaN ELSE PosInf)
         ELSE Num((Abs(a) * scale) \div b.v)

np_divide(a, b, scale) ==
    IF b.k = "nan" THEN NaN
    ELSE IF b.v = 0
         THEN (IF a = 0 THEN NaN ELSE IF a > 0 THEN PosInf ELSE NegInf)
         ELSE Num((a * scale) \div b.v)

\* comparisons of a float with a finite number: every comparison with NaN
\* is false
LessOrEqual(x, y) ==
    CASE x.k = "nan" -> FALSE
      [] x.k = "inf" -> x.v < 0
      [] OTHER -> x.v <= y

Less(x, y) ==
    CASE x.k = "nan" -> FALSE
      [] x.k = "inf" -> x.v < 0
      [] OTHER -> x.v < y

GreaterEq(x, y) ==
    CASE x.k = "nan" -> FALSE
      [] x.k = "inf" -> x.v > 0
      [] OTHER -> x.v >= y

Greater(x, y) ==
    CASE x.k = "nan" -> FALSE
      [] x.k = "inf" -> x.v > 0
      [] OTHER -> x.v > y

(***************************************************************************)
(* Distribution functions, tabulated at knots <<statistic in 1/ZS,         *)
(* probability in 1/FP>> and interpolated linearly in between.  The knots  *)
(* include the critical values of the significance levels.                 *)
(***************************************************************************)
NormCdfKnots ==
    << <<-4000, 0>>, <<-3750, 1>>, <<-3500, 2>>, <<-3250, 6>>, <<-3000, 13>>,
       <<-2750, 30>>, <<-2576, 50>>, <<-2500, 62>>, <<-2326, 100>>, <<-2250, 122>>,
       <<-2000, 228>>, <<-1960, 250>>, <<-1750, 401>>, <<-1645, 500>>, <<-1500, 668>>,
       <<-1282, 1000>>, <<-1250, 1056>>, <<-1000, 1587>>, <<-750, 2266>>, <<-500, 3085>>,
       <<-250, 4013>>, <<0, 5000>>, <<250, 5987>>, <<500, 6915>>, <<750, 7734>>,
       <<1000, 8413>>, <<1250, 8944>>, <<1282, 9000>>, <<1500, 9332>>, <<1645, 9500>>,
       <<1750, 9599>>, <<1960, 9750>>, <<2000, 9772>>, <<2250, 9878>>, <<2326, 9900>>,
       <<2500, 9938>>, <<2576, 9950>>, <<2750, 9970>>, <<3000, 9987>>, <<3250, 9994>>,
       <<3500, 9998>>, <<3750, 9999>>, <<4000, 10000>> >>

TCdfKnots1 ==
    << <<-64000, 50>>, <<-63657, 50>>, <<-32000, 99>>, <<-31821, 100>>, <<-16000, 199>>,
       <<-12706, 250>>, <<-8000, 396>>, <<-6314, 500>>, <<-6000, 526>>, <<-4000, 780>>,
       <<-3078, 1000>>, <<-3000, 1024>>, <<-2500, 1211>>, <<-2000, 1476>>, <<-1500, 1872>>,
       <<-1000, 2500>>, <<-500, 3524>>, <<0, 5000>>, <<500, 6476>>, <<1000, 7500>>,
       <<1500, 8128>>, <<2000, 8524>>, <<2500, 8789>>, <<3000, 8976>>, <<3078, 9000>>,
       <<4000, 9220>>, <<6000, 9474>>, <<6314, 9500>>, <<8000, 9604>>, <<12706, 9750>>,
       <<16000, 9801>>, <<31821, 9900>>, <<32000, 9901>>, <<63657, 9950>>, <<64000, 9950>> >>

TCdfKnots2 ==
    << <<-64000, 1>>, <<-32000, 5>>, <<-16000, 19>>, <<-9925, 50>>, <<-8000, 76>>,
       <<-6965, 100>>, <<-6000, 133>>, <<-4303, 250>>, <<-4000, 286>>, <<-3000, 477>>,
       <<-2920, 500>>, <<-2500, 648>>, <<-2000, 918>>, <<-1886, 1000>>, <<-1500, 1362>>,
       <<-1000, 2113>>, <<-500, 3333>>, <<0, 5000>>, <<500, 6667>>, <<1000, 7887>>,
       <<1500, 8638>>, <<1886, 9000>>, <<2000, 9082>>, <<2500, 9352>>, <<2920, 9500>>,
       <<3000, 9523>>, <<4000, 9714>>, <<4303, 9750>>, <<6000, 9867>>, <<6965, 9900>>,
       <<8000, 9924>>, <<9925, 9950>>, <<16000, 9981>>, <<32000, 9995>>, <<64000, 9999>> >>

TCdfKnots3 ==
    << <<-64000, 0>>, <<-32000, 0>>, <<-16000, 3>>, <<-8000, 20>>, <<-6000, 46>>,
       <<-5841, 50>>, <<-4541, 100>>, <<-4000, 140>>, <<-3182, 250>>, <<-3000, 288>>,
       <<-2500, 439>>, <<-2353, 500>>, <<-2000, 697>>, <<-1638, 1000>>, <<-1500, 1153>>,
       <<-1000, 1955>>, <<-500, 3257>>, <<0, 5000>>, <<500, 6743>>, <<1000, 8045>>,
       <<1500, 8847>>, <<1638, 9000>>, <<2000, 9303>>, <<2353, 9500>>, <<2500, 9561>>,
       <<3000, 9712>>, <<3182, 9750>>, <<4000, 9860>>, <<4541, 9900>>, <<5841, 9950>>,
       <<6000, 9954>>, <<8000, 9980>>, <<16000, 9997>>, <<32000, 10000>>, <<64000, 10000>> >>

TCdfKnots4 ==
    << <<-64000, 0>>, <<-32000, 0>>, <<-16000, 0>>, <<-8000, 7>>, <<-6000, 19>>,
       <<-4604, 50>>, <<-4000, 81>>, <<-3747, 100>>, <<-3000, 200>>, <<-2776, 250>>,
       <<-2500, 334>>, <<-2132, 500>>, <<-2000, 581>>, <<-1533, 1000>>, <<-1500, 1040>>,
       <<-1000, 1870>>, <<-500, 3217>>, <<0, 5000>>, <<500, 6783>>, <<1000, 8130>>,
       <<1500, 8960>>, <<1533, 9000>>, <<2000, 9419>>, <<2132, 9500>>, <<2500, 9666>>,
       <<2776, 9750>>, <<3000, 9800>>, <<3747, 9900>>, <<4000, 9919>>, <<4604, 9950>>,
       <<6000, 9981>>, <<8000, 9993>>, <<16000, 10000>>, <<32000, 10000>>, <<64000, 10000>> >>

TCdfKnots5 ==
    << <<-64000, 0>>, <<-32000, 0>>, <<-16000, 0>>, <<-8000, 2>>, <<-6000, 9>>,
       <<-4032, 50>>, <<-4000, 52>>, <<-3365, 100>>, <<-3000, 150>>, <<-2571, 250>>,
       <<-2500, 272>>, <<-2015, 500>>, <<-2000, 510>>, <<-1500, 970>>, <<-1476, 1000>>,
       <<-1000, 1816>>, <<-500, 3191>>, <<0, 5000>>, <<500, 6809>>, <<1000, 8184>>,
       <<1476, 9000>>, <<1500, 9030>>, <<2000, 9490>>, <<2015, 9500>>, <<2500, 9728>>,
       <<2571, 9750>>, <<3000, 9850>>, <<3365, 9900>>, <<4000, 9948>>, <<4032, 9950>>,
       <<6000, 9991>>, <<8000, 9998>>, <<16000, 10000>>, <<32000, 10000>>, <<64000, 10000>> >>

TCdfKnots6 ==
    << <<-64000, 0>>, <<-32000, 0>>, <<-16000, 0>>, <<-8000, 1>>, <<-6000, 5>>,
       <<-4000, 36>>, <<-3707, 50>>, <<-3143, 100>>, <<-3000, 120>>, <<-2500, 233>>,
       <<-2447, 250>>, <<-2000, 462>>, <<-1943, 500>>, <<-1500, 921>>, <<-1440, 1000>>,
       <<-1000, 1780>>, <<-500, 3174>>, <<0, 5000>>, <<500, 6826>>, <<1000, 8220>>,
       <<1440, 9000>>, <<1500, 9079>>, <<1943, 9500>>, <<2000, 9538>>, <<2447, 9750>>,
       <<2500, 9767>>, <<3000, 9880>>, <<3143, 9900>>, <<3707, 9950>>, <<4000, 9964>>,
       <<6000, 9995>>, <<8000, 9999>>, <<16000, 10000>>, <<32000, 10000>>, <<64000, 10000>> >>

TCdfKnots ==
    <<TCdfKnots1, TCdfKnots2, TCdfKnots3, TCdfKnots4, TCdfKnots5, TCdfKnots6>>

Interpolate(knots, x) ==
    IF x <= knots[1][1] THEN knots[1][2]
    ELSE IF x >= knots[Len(knots)][1] THEN knots[Len(knots)][2]
    ELSE LET i == CHOOSE j \in 1..(Len(knots) - 1) :
                      knots[j][1] <= x /\ x < knots[j + 1][1]
             lo == knots[i]
             hi == knots[i + 1]
         IN  lo[2] + ((x - lo[1]) * (hi[2] - lo[2])) \div (hi[1] - lo[1])

Cdf(knots, x) ==
    CASE x.k = "nan" -> NaN
      [] x.k = "inf" -> (IF x.v > 0 THEN Num(FP) ELSE Num(0))
      [] OTHER -> Num(Interpolate(knots, x.v))

\* scipy.stats.norm.cdf
norm_cdf(z) == Cdf(NormCdfKnots, z)

\* scipy.stats.t.cdf(t, df); the normal distribution beyond the tabulated df
t_cdf(x, df) ==
    IF df \in 1..Len(TCdfKnots) THEN Cdf(TCdfKnots[df], x)
                                ELSE Cdf(NormCdfKnots, x)

\* scipy.stats.t.ppf(q, df), the least knot of the table at probability q
t_ppf(q, df) ==
    LET knots == IF df \in 1..Len(TCdfKnots) THEN TCdfKnots[df]
                                             ELSE NormCdfKnots
        at == {j \in 1..Len(knots) : knots[j][2] = q}
    IN  knots[CHOOSE j \in at : \A i \in at : j <= i][1]

\* 1 - x
LowerTail(x) == x

OneMinus(x) == IF x.k = "nan" THEN NaN ELSE Num(FP - x.v)

\* effect_size -/+ quantile * se
CiBound(effect_size, quantile, se, sign, scale) ==
    IF se.k = "nan" THEN NaN
    ELSE Num(effect_size + sign * ((quantile * se.v) \div scale))

AbsGreaterEq(x, y) ==
    CASE x.k = "nan" -> FALSE
      [] x.k = "inf" -> TRUE
      [] OTHER -> Abs(x.v) >= y

(***************************************************************************)
(* display_results: the recommendation chain.                              *)
(***************************************************************************)
recommendation_inverted(experiment_type, p_value, alpha, meets_mde, within_margin) ==
    IF experiment_type = "Superiority"
    THEN IF Less(p_value, alpha) /\ meets_mde
         THEN "IMPLEMENT - Significant and meaningful effect"
         ELSE IF Less(p_value, alpha) /\ ~meets_mde
         THEN "CONSIDER - Significant but may not be meaningful"
         ELSE IF GreaterEq(p_value, alpha)
         THEN "DON'T IMPLEMENT - No significant effect detected"
         ELSE "RUN LONGER - Inconclusive results"
    ELSE IF GreaterEq(p_value, alpha) /\ within_margin
         THEN "IMPLEMENT - Non-inferiority demonstrated"
         ELSE IF GreaterEq(p_value, alpha) /\ ~within_margin
         THEN "DON'T IMPLEMENT - Treatment is inferior"
         ELSE IF Less(p_value, alpha)
         THEN "DON'T IMPLEMENT - Non-inferiority not demonstrated"
         ELSE "RUN LONGER - Inconclusive results"

recommendation(experiment_type, p_value, alpha, meets_mde, within_margin) ==
    IF experiment_type = "Superiority"
    THEN IF Less(p_value, alpha) /\ meets_mde
         THEN "IMPLEMENT - Significant and meaningful effect"
         ELSE IF Less(p_value, alpha) /\ ~meets_mde
         THEN "CONSIDER - Significant but may not be meaningful"
         ELSE IF GreaterEq(p_value, alpha)
         THEN "DON'T IMPLEMENT - No significant effect detected"
         ELSE "RUN LONGER - Inconclusive results"
    ELSE IF Less(p_value, alpha) /\ within_margin
         THEN "IMPLEMENT - Non-inferiority demonstrated"
         ELSE IF Less(p_value, alpha) /\ ~within_margin
         THEN "DON'T IMPLEMENT - Treatment is inferior"
         ELSE IF GreaterEq(p_value, alpha)
         THEN "DON'T IMPLEMENT - Non-inferiority not demonstrated"
         ELSE "RUN LONGER - Inconclusive results"

(***************************************************************************)
(* display_results: what the page shows for an analysis.                   *)
(***************************************************************************)
display_results_inclusive(experiment_type, primary_metric, effect_size, p_value, alpha, ci_lower, ci_upper, mde, non_inferiority_margin) ==
    LET superiority == experiment_type = "Superiority"
        meets_mde == superiority /\ mde.some /\ Abs(effect_size) >= mde.v
        ci_meets_mde ==
            /\ superiority
            /\ IF Greater(ci_lower, 0) /\ mde.some
               THEN AbsGreaterEq(ci_lower, mde.v)
               ELSE IF mde.some THEN AbsGreaterEq(ci_upper, mde.v) ELSE FALSE
        within_margin ==
            /\ ~superiority
            /\ non_inferiority_margin.some
            /\ effect_size >= -non_inferiority_margin.v
        ci_within_margin ==
            /\ ~superiority
            /\ non_inferiority_margin.some
            /\ Greater(ci_lower, -non_inferiority_margin.v)
    IN  [kind |-> "displayed", exc |-> "", n |-> 0,
         effect_size |-> effect_size,
         p_value |-> p_value,
         ci_lower |-> ci_lower,
         ci_upper |-> ci_upper,
         p_value_delta |-> IF Less(p_value, alpha) THEN "Significant"
                                                   ELSE "Not Significant",
         significance_decision |-> IF Less(p_value, alpha)
                                   THEN "Significant" ELSE "Not Significant",
         effect_direction |-> IF effect_size > 0 THEN "Positive" ELSE "Negative",
         meets_mde |-> meets_mde,
         ci_meets_mde |-> ci_meets_mde,
         within_margin |-> within_margin,
         ci_within_margin |-> ci_within_margin,
         recommendation |-> recommendation(experiment_type, p_value, alpha,
                                           meets_mde, within_margin)]

display_results(experiment_type, primary_metric, effect_size, p_value, alpha, ci_lower, ci_upper, mde, non_inferiority_margin) ==
    LET superiority == experiment_type = "Superiority"
        meets_mde == superiority /\ mde.some /\ Abs(effect_size) >= mde.v
        ci_meets_mde ==
            /\ superiority
            /\ IF Greater(ci_lower, 0) /\ mde.some
               THEN AbsGreaterEq(ci_lower, mde.v)
               ELSE IF mde.some THEN AbsGreaterEq(ci_upper, mde.v) ELSE FALSE
        within_margin ==
            /\ ~superiority
            /\ non_inferiority_margin.some
            /\ effect_size > -non_inferiority_margin.v
        ci_within_margin ==
            /\ ~superiority
            /\ non_inferiority_margin.some
            /\ Greater(ci_lower, -non_inferiority_margin.v)
    IN  [kind |-> "displayed", exc |-> "", n |-> 0,
         effect_size |-> effect_size,
         p_value |-> p_value,
         ci_lower |-> ci_lower,
         ci_upper |-> ci_upper,
         p_value_delta |-> IF Less(p_value, alpha) THEN "Significant"
                                                   ELSE "Not Significant",
         significance_decision |-> IF Less(p_value, alpha)
                                   THEN "Significant" ELSE "Not Significant",
         effect_direction |-> IF effect_size > 0 THEN "Positive" ELSE "Negative",
         meets_mde |-> meets_mde,
         ci_meets_mde |-> ci_meets_mde,
         within_margin |-> within_margin,
         ci_within_margin |-> ci_within_margin,
         recommendation |-> recommendation(experiment_type, p_value, alpha,
                                           meets_mde, within_margin)]

(***************************************************************************)
(* perform_analysis.  Rates are in 1/FP; means, standard deviations and    *)
(* continuous effects are in 1/MS, the arguments control_std and           *)
(* treatment_std and the means being whole units.  count / n and 1 / n are *)
(* divisions of Python numbers (ZeroDivisionError for n = 0); se is a      *)
(* numpy float, so effect_size / se never raises.                          *)
(***************************************************************************)
perform_analysis(experiment_type, primary_metric, control_n, control_data, control_std, treatment_n, treatment_data, treatment_std, mde, alpha, non_inferiority_margin) ==
    LET shift == IF experiment_type = "Superiority"
                 THEN 0 ELSE non_inferiority_margin.v
    IN
    IF primary_metric = "App Rate"
    THEN IF control_n = 0 \/ treatment_n = 0 THEN Raise("ZeroDivisionError")
         ELSE
         LET control_rate == (control_data * FP) \div control_n
             treatment_rate == (treatment_data * FP) \div treatment_n
             pooled_rate == ((control_data + treatment_data) * FP)
                                \div (control_n + treatment_n)
             se == np_sqrt((pooled_rate * (FP - pooled_rate)
                               * (control_n + treatment_n))
                           \div (control_n * treatment_n))
             effect_size == treatment_rate - control_rate
             z_stat == np_divide(effect_size + shift, se, ZS)
             p_value == OneMinus(norm_cdf(z_stat))
             quantile == norm_ppf(FP - alpha \div 2)
             ci_lower == CiBound(effect_size, quantile, se, -1, ZS)
             ci_upper == CiBound(effect_size, quantile, se, 1, ZS)
         IN  display_results(experiment_type, primary_metric, effect_size,
                             p_value, alpha, ci_lower, ci_upper, mde,
                             non_inferiority_margin)
    ELSE IF control_n + treatment_n - 2 = 0 THEN Raise("ZeroDivisionError")
         ELSE IF control_n = 0 \/ treatment_n = 0
         THEN Raise("ZeroDivisionError")
         ELSE
         LET control_mean == control_data
             treatment_mean == treatment_data
             pooled_std ==
                 np_sqrt((((control_n - 1) * control_std * control_std
                           + (treatment_n - 1) * treatment_std * treatment_std)
                          * MS * MS) \div (control_n + treatment_n - 2))
             effect_size == (treatment_mean - control_mean) * MS
             se == Num((pooled_std.v
                        * Sqrt(((control_n + treatment_n) * FP * FP)
                               \div (control_n * treatment_n))) \div FP)
             df == control_n + treatment_n - 2
             t_stat == np_divide(effect_size + shift, se, ZS)
             p_value == OneMinus(t_cdf(t_stat, df))
             quantile == t_ppf(FP - alpha \div 2, df)
             ci_lower == CiBound(effect_size, quantile, se, -1, ZS)
             ci_upper == CiBound(effect_size, quantile, se, 1, ZS)
         IN  display_results(experiment_type, primary_metric, effect_size,
                             p_value, alpha, ci_lower, ci_upper, mde,
                             non_inferiority_margin)

Init ==
    /\ op = "none"
    /\ args = [none |-> 0]
    /\ result = NoResult
    /\ form_data = [key \in {} |-> None]
    /\ calculator_sample_size = None
    /\ calculator_test_type = None

(***************************************************************************)
(* The calls the pages make.  Every number_input of the sample-size pages  *)
(* other than alpha and power is unbounded, so baseline, lift, margin,     *)
(* standard deviation and traffic may be zero or negative.                 *)
(***************************************************************************)
EstimateRuntime ==
    /\ op = "none"
    /\ \E sample_size \in 0..MaxSample, daily_users \in (-2)..MaxDaily :
           /\ op' = "estimate_runtime"
           /\ args' = [sample_size |-> sample_size, daily_users |-> daily_users]
           /\ result' = Return(estimate_runtime(sample_size, daily_users))
           /\ UNCHANGED <<form_data, calculator_state>>

\* experiment_designer, superiority on a rate metric; sample_size_calculator
CalculateProportions ==
    /\ op = "none"
    /\ \E baseline \in Baselines, expected_lift \in Lifts,
          alpha \in Alphas, power \in Powers :
           /\ op' = "calculate_proportions"
           /\ args' = [p1 |-> baseline, p2 |-> baseline + expected_lift,
                       alpha |-> alpha, power |-> power]
           /\ result' = calculate_proportions(baseline, baseline + expected_lift,
                                              alpha, power)
           /\ UNCHANGED <<form_data, calculator_state>>

\* sample_size_calculator, "Continuous Metric T-Test"
CalculateContinuous ==
    /\ op = "none"
    /\ \E baseline_mean \in 0..MaxMean, expected_lift \in (-MaxMean)..MaxMean,
          std \in (-MaxStd)..MaxStd, alpha \in Alphas, power \in Powers :
           /\ op' = "calculate_continuous"
           /\ args' = [mean1 |-> baseline_mean,
                       mean2 |-> baseline_mean + expected_lift,
                       std |-> std, alpha |-> alpha, power |-> power]
           /\ result' = calculate_continuous(baseline_mean,
                                             baseline_mean + expected_lift,
                                             std, alpha, power)
           /\ UNCHANGED <<form_data, calculator_state>>

\* experiment_designer and sample_size_calculator, non-inferiority
CalculateNonInferiority ==
    /\ op = "none"
    /\ \E baseline \in Baselines, margin \in Lifts,
          alpha \in Alphas, power \in Powers :
           /\ op' = "calculate_non_inferiority"
           /\ args' = [p1 |-> baseline, delta |-> margin,
                       alpha |-> alpha, power |-> power]
           /\ result' = calculate_non_inferiority(baseline, margin, alpha, power)
           /\ UNCHANGED <<form_data, calculator_state>>

(***************************************************************************)
(* post_experiment_analysis: the "Analyze Results" button.  The widgets    *)
(* bound the inputs: sample sizes >= 1, 0 <= successes <= sample size,     *)
(* standard deviations >= 0.1, MDE and margin >= 0.0001, and               *)
(* 0.01 <= alpha <= 0.1.  MDE is None in a non-inferiority analysis and    *)
(* the margin is None in a superiority analysis.                           *)
(***************************************************************************)
AnalysisArgs(experiment_type, primary_metric, control_n, control_data, control_std, treatment_n, treatment_data, treatment_std, mde, alpha, non_inferiority_margin) ==
    [experiment_type |-> experiment_type, primary_metric |-> primary_metric,
     control_n |-> control_n, control_data |-> control_data,
     control_std |-> control_std, treatment_n |-> treatment_n,
     treatment_data |-> treatment_data, treatment_std |-> treatment_std,
     mde |-> mde, alpha |-> alpha,
     non_inferiority_margin |-> non_inferiority_margin]

AnalyzeAppRate ==
    /\ op = "none"
    /\ \E experiment_type \in ExperimentTypes,
          control_sample_size \in 1..MaxN, treatment_sample_size \in 1..MaxN,
          threshold \in RateThresholds, alpha \in Alphas :
       \E control_successes \in 0..control_sample_size,
          treatment_successes \in 0..treatment_sample_size :
           LET mde == IF experiment_type = "Superiority"
                      THEN Some(threshold) ELSE None
               non_inferiority_margin ==
                   IF experiment_type = "Non-inferiority"
                   THEN Some(threshold) ELSE None
           IN  /\ op' = "perform_analysis"
               /\ args' = AnalysisArgs(experiment_type, "App Rate",
                              control_sample_size, control_successes, 0,
                              treatment_sample_size, treatment_successes, 0,
                              mde, alpha, non_inferiority_margin)
               /\ result' = perform_analysis(experiment_type, "App Rate",
                              control_sample_size, control_successes, 0,
                              treatment_sample_size, treatment_successes, 0,
                              mde, alpha, non_inferiority_margin)
               /\ UNCHANGED <<form_data, calculator_state>>

AnalyzeContinuous ==
    /\ op = "none"
    /\ \E experiment_type \in ExperimentTypes,
          primary_metric \in {"Revenue", "EPL"},
          control_sample_size \in 1..MaxN, treatment_sample_size \in 1..MaxN,
          control_mean \in 0..MaxMean, treatment_mean \in 0..MaxMean,
          control_std \in 1..MaxStd, treatment_std \in 1..MaxStd,
          threshold \in MeanThresholds, alpha \in Alphas :
           LET mde == IF experiment_type = "Superiority"
                      THEN Some(threshold) ELSE None
               non_inferiority_margin ==
                   IF experiment_type = "Non-inferiority"
                   THEN Some(threshold) ELSE None
           IN  /\ op' = "perform_analysis"
               /\ args' = AnalysisArgs(experiment_type, primary_metric,
                              control_sample_size, control_mean, control_std,
                              treatment_sample_size, treatment_mean,
                              treatment_std, mde, alpha, non_inferiority_margin)
               /\ result' = perform_analysis(experiment_type, primary_metric,
                              control_sample_size, control_mean, control_std,
                              treatment_sample_size, treatment_mean,
                              treatment_std, mde, alpha, non_inferiority_margin)
               /\ UNCHANGED <<form_data, calculator_state>>

\* every script run starts from fresh locals: results are rendered and dropped
Rerun ==
    /\ op # "none"
    /\ op' = "none"
    /\ args' = [none |-> 0]
    /\ result' = NoResult
    /\ UNCHANGED <<form_data, calculator_state>>

Next ==
    \/ EstimateRuntime
    \/ CalculateProportions
    \/ CalculateContinuous
    \/ CalculateNonInferiority
    \/ AnalyzeAppRate
    \/ AnalyzeContinuous
    \/ Rerun

Spec == Init /\ [][Next]_vars

(***************************************************************************)
(* perform_analysis called as a function, with arguments the page's        *)
(* widgets would have refused: a success count above the sample size, a    *)
(* zero sample size, a zero or negative standard deviation.                *)
(***************************************************************************)
PerformAnalysisAppRate ==
    /\ op = "none"
    /\ \E experiment_type \in ExperimentTypes,
          control_n \in 0..MaxN, treatment_n \in 0..MaxN,
          threshold \in RateThresholds, alpha \in Alphas :
       \E control_data \in 0..(control_n + 1),
          treatment_data \in 0..(treatment_n + 1) :
           LET mde == IF experiment_type = "Superiority"
                      THEN Some(threshold) ELSE None
               non_inferiority_margin ==
                   IF experiment_type = "Non-inferiority"
                   THEN Some(threshold) ELSE None
           IN  /\ op' = "perform_analysis"
               /\ args' = AnalysisArgs(experiment_type, "App Rate",
                              control_n, control_data, 0,
                              treatment_n, treatment_data, 0,
                              mde, alpha, non_inferiority_margin)
               /\ result' = perform_analysis(experiment_type, "App Rate",
                              control_n, control_data, 0,
                              treatment_n, treatment_data, 0,
                              mde, alpha, non_inferiority_margin)
               /\ UNCHANGED <<form_data, calculator_state>>

PerformAnalysisContinuous ==
    /\ op = "none"
    /\ \E experiment_type \in ExperimentTypes,
          control_n \in 0..MaxN, treatment_n \in 0..MaxN,
          control_data \in 0..1, treatment_data \in 0..1,
          control_std \in (-1)..MaxStd, treatment_std \in (-1)..MaxStd,
          threshold \in MeanThresholds, alpha \in Alphas :
           LET mde == IF experiment_type = "Superiority"
                      THEN Some(threshold) ELSE None
               non_inferiority_margin ==
                   IF experiment_type = "Non-inferiority"
                   THEN Some(threshold) ELSE None
           IN  /\ op' = "perform_analysis"
               /\ args' = AnalysisArgs(experiment_type, "Revenue",
                              control_n, control_data, control_std,
                              treatment_n, treatment_data, treatment_std,
                              mde, alpha, non_inferiority_margin)
               /\ result' = perform_analysis(experiment_type, "Revenue",
                              control_n, control_data, control_std,
                              treatment_n, treatment_data, treatment_std,
                              mde, alpha, non_inferiority_margin)
               /\ UNCHANGED <<form_data, calculator_state>>

NextApi ==
    \/ PerformAnalysisAppRate
    \/ PerformAnalysisContinuous
    \/ Rerun

SpecApi == Init /\ [][NextApi]_vars

(***************************************************************************)
(* The SampleSizeCalculator functions called as functions: alpha and power *)
(* anywhere in (0, 1), here at points on both sides of 0.5.                *)
(***************************************************************************)
WideAlphas == {500, 4000, 5000}

WidePowers == {100, 2500, 5000, 8000}

CallProportions ==
    /\ op = "none"
    /\ \E p1 \in Baselines, lift \in Lifts,
          alpha \in WideAlphas, power \in WidePowers :
           /\ op' = "calculate_proportions"
           /\ args' = [p1 |-> p1, p2 |-> p1 + lift,
                       alpha |-> alpha, power |-> power]
           /\ result' = calculate_proportions(p1, p1 + lift, alpha, power)
           /\ UNCHANGED <<form_data, calculator_state>>

CallContinuous ==
    /\ op = "none"
    /\ \E mean1 \in 0..MaxMean, lift \in (-MaxMean)..MaxMean,
          std \in (-MaxStd)..MaxStd,
          alpha \in WideAlphas, power \in WidePowers :
           /\ op' = "calculate_continuous"
           /\ args' = [mean1 |-> mean1, mean2 |-> mean1 + lift,
                       std |-> std, alpha |-> alpha, power |-> power]
           /\ result' = calculate_continuous(mean1, mean1 + lift, std,
                                             alpha, power)
           /\ UNCHANGED <<form_data, calculator_state>>

CallNonInferiority ==
    /\ op = "none"
    /\ \E p1 \in Baselines, delta \in Lifts,
          alpha \in WideAlphas, power \in WidePowers :
           /\ op' = "calculate_non_inferiority"
           /\ args' = [p1 |-> p1, delta |-> delta,
                       alpha |-> alpha, power |-> power]
           /\ result' = calculate_non_inferiority(p1, delta, alpha, power)
           /\ UNCHANGED <<form_data, calculator_state>>

(***************************************************************************)
(* The documented scenarios: a baseline of 0.75 against 0.762, 0.76 and    *)
(* 0.74, at the levels the pages offer.                                    *)
(***************************************************************************)
ScenarioBaseline == 3 * BaselineStep

ScenarioLifts == {-100, 100, 120}

CallScenarioProportions ==
    /\ op = "none"
    /\ \E lift \in ScenarioLifts, alpha \in Alphas, power \in Powers :
           /\ op' = "calculate_proportions"
           /\ args' = [p1 |-> ScenarioBaseline, p2 |-> ScenarioBaseline + lift,
                       alpha |-> alpha, power |-> power]
           /\ result' = calculate_proportions(ScenarioBaseline,
                            ScenarioBaseline + lift, alpha, power)
           /\ UNCHANGED <<form_data, calculator_state>>

CallScenarioNonInferiority ==
    /\ op = "none"
    /\ \E delta \in ScenarioLifts, alpha \in Alphas, power \in Powers :
           /\ op' = "calculate_non_inferiority"
           /\ args' = [p1 |-> ScenarioBaseline, delta |-> delta,
                       alpha |-> alpha, power |-> power]
           /\ result' = calculate_non_inferiority(ScenarioBaseline, delta,
                                                  alpha, power)
           /\ UNCHANGED <<form_data, calculator_state>>

NextCalc ==
    \/ CallProportions
    \/ CallContinuous
    \/ CallNonInferiority
    \/ CallScenarioProportions
    \/ CallScenarioNonInferiority
    \/ Rerun

SpecCalc == Init /\ [][NextCalc]_vars

(***************************************************************************)
(* display_results called as a function: a p-value on either side of       *)
(* alpha, equal to it, or nan; an effect on either side of the threshold   *)
(* or equal to it; the MDE and the margin supplied or None.                *)
(***************************************************************************)
DisplayEffects == {-10000, -501, -500, -499, 0, 499, 500, 501, 10000}

DisplayHalfWidths == {0, 600}

DisplayResults ==
    /\ op = "none"
    /\ \E experiment_type \in ExperimentTypes, effect_size \in DisplayEffects,
          alpha \in Alphas, half_width \in DisplayHalfWidths,
          mde \in {None} \cup {Some(t) : t \in RateThresholds},
          non_inferiority_margin \in {None} \cup {Some(t) : t \in RateThresholds} :
       \E p_value \in {NaN, Num(alpha - 1), Num(alpha), Num(alpha + 1)} :
           /\ op' = "display_results"
           /\ args' = [experiment_type |-> experiment_type,
                       primary_metric |-> "App Rate",
                       effect_size |-> effect_size, p_value |-> p_value,
                       alpha |-> alpha,
                       ci_lower |-> Num(effect_size - half_width),
                       ci_upper |-> Num(effect_size + half_width),
                       mde |-> mde,
                       non_inferiority_margin |-> non_inferiority_margin]
           /\ result' = display_results(experiment_type, "App Rate", effect_size,
                            p_value, alpha, Num(effect_size - half_width),
                            Num(effect_size + half_width), mde,
                            non_inferiority_margin)
           /\ UNCHANGED <<form_data, calculator_state>>

NextDisplay ==
    \/ DisplayResults
    \/ Rerun

SpecDisplay == Init /\ [][NextDisplay]_vars

(***************************************************************************)
(* SessionManager: st.session_state.form_data, a dictionary.  A key is     *)
(* absent, or holds None, or holds a value.                                *)
(***************************************************************************)
get_form_data(fd, key, default) ==
    IF key \in DOMAIN fd THEN fd[key] ELSE default

set_form_data(fd, key, value) ==
    [k \in DOMAIN fd \cup {key} |-> IF k = key THEN value ELSE fd[k]]

\* "if widget != get_form_data(key, default): set_form_data(key, widget)"
auto_save(fd, key, value, default) ==
    IF value # get_form_data(fd, key, default)
    THEN set_form_data(fd, key, value) ELSE fd

(***************************************************************************)
(* experiment_designer: the three required text fields and the widgets of  *)
(* the metric, test and traffic sections.  Percentages are in 1/100 of a point, so that value / 100 is  *)
(* a proportion in 1/FP.  alpha and power stay at the values the page      *)
(* starts with.                                                            *)
(***************************************************************************)
RateMetrics == {"App Rate", "Sold Rate", "Fund Rate"}

DesignerMetrics == {"App Rate", "Revenue"}

TestTypes == {"Superiority Test", "Non-Inferiority Test"}

DesignerBaselines == {5000, 7500}

DesignerLifts == {0, 120}

DesignerMargins == {0, 100}

TrafficPeriods == {"Daily", "Weekly", "Monthly"}

\* a text field is empty or filled in
Texts == {"", "Dynamic CTA text"}

DailyUsers == {0, 12000}

WeeklyUsers == {0, 84000}

MonthlyUsers == {360000}

\* "sample_size = 10000  # Placeholder"
Placeholder == 10^4

\* the widgets as a run creates them when none has a state yet: each starts
\* from the value saved in form_data or from its default
fresh_widgets(fd) ==
    LET superiority ==
            /\ "test_type" \in DOMAIN fd
            /\ fd["test_type"] = Some("Superiority Test")
    IN  [experiment_name |-> get_form_data(fd, "experiment_name", Some("")).v,
         feature_description |->
             get_form_data(fd, "feature_description", Some("")).v,
         hypothesis |-> get_form_data(fd, "hypothesis", Some("")).v,
         primary_metric |-> "App Rate",
         baseline_value |-> get_form_data(fd, "baseline_value", Some(7500)).v,
         test_type |-> IF superiority THEN "Superiority Test"
                                      ELSE "Non-Inferiority Test",
         expected_lift |-> IF superiority
                           THEN get_form_data(fd, "expected_lift", Some(120))
                           ELSE None,
         non_inferiority_margin |->
             IF superiority THEN None
             ELSE get_form_data(fd, "non_inferiority_margin", Some(100)),
         alpha |-> get_form_data(fd, "alpha", Some(500)).v,
         power |-> get_form_data(fd, "power", Some(8000)).v,
         traffic_period |-> get_form_data(fd, "traffic_period", Some("Daily")).v,
         daily_users |-> get_form_data(fd, "daily_users", Some(12000)).v,
         weekly_users |-> get_form_data(fd, "weekly_users", Some(84000)).v,
         monthly_users |-> get_form_data(fd, "monthly_users", Some(360000)).v]

\* what a run of the page leaves on the screen
Rendered(sample_size, computed, runtime, quick) ==
    [kind |-> "rendered", exc |-> "", n |-> 0, sample_size |-> sample_size,
     computed |-> computed, runtime |-> runtime, quick_experiment |-> quick,
     final_design |-> "not requested"]

\* an exception of the calculator ends the run: nothing below it is rendered
Aborted(e) ==
    [kind |-> "raise", exc |-> e, n |-> 0, sample_size |-> None,
     computed |-> FALSE, runtime |-> None, quick_experiment |-> FALSE,
     final_design |-> "not requested"]

\* the auto-save of the lift (margin): a changed value is saved and the
\* margin (lift) is set to None
save_without_clear(fd, key, value, other) ==
    IF value # get_form_data(fd, key, Some(0))
    THEN set_form_data(fd, key, value)
    ELSE fd

save_and_clear(fd, key, value, other) ==
    IF value # get_form_data(fd, key, Some(0))
    THEN set_form_data(set_form_data(fd, key, value), other, None)
    ELSE fd

(***************************************************************************)
(* One run of experiment_designer over the widget values w and the saved   *)
(* form data fd: the auto-saves, the sample size, the runtime and the      *)
(* messages.  The value is the form data after the run and what was        *)
(* rendered.                                                               *)
(***************************************************************************)
experiment_designer(w, fd) ==
    LET superiority == w.test_type = "Superiority Test"
        expected_lift == IF superiority THEN w.expected_lift ELSE None
        non_inferiority_margin ==
            IF superiority THEN None ELSE w.non_inferiority_margin
        fd_name == auto_save(fd, "experiment_name", Some(w.experiment_name),
                             Some(""))
        fd_feature == auto_save(fd_name, "feature_description",
                                Some(w.feature_description), Some(""))
        fd0 == auto_save(fd_feature, "hypothesis", Some(w.hypothesis), Some(""))
        fd1 == auto_save(fd0, "primary_metric", Some(w.primary_metric), Some(""))
        fd2 == auto_save(fd1, "baseline_value", Some(w.baseline_value), Some(0))
        fd3 == auto_save(fd2, "test_type", Some(w.test_type), Some(""))
        fd4 == IF superiority
               THEN save_and_clear(fd3, "expected_lift", expected_lift,
                                   "non_inferiority_margin")
               ELSE save_and_clear(fd3, "non_inferiority_margin",
                                   non_inferiority_margin, "expected_lift")
        fd5 == auto_save(fd4, "alpha", Some(w.alpha), Some(500))
        fd6 == auto_save(fd5, "power", Some(w.power), Some(8000))
        fd7 == auto_save(fd6, "traffic_period", Some(w.traffic_period),
                         Some("Daily"))
        fd8 == CASE w.traffic_period = "Daily" ->
                        auto_save(fd7, "daily_users", Some(w.daily_users),
                                  Some(12000))
                 [] w.traffic_period = "Weekly" ->
                        auto_save(fd7, "weekly_users", Some(w.weekly_users),
                                  Some(84000))
                 [] OTHER ->
                        auto_save(fd7, "monthly_users", Some(w.monthly_users),
                                  Some(360000))
        daily_users == CASE w.traffic_period = "Daily" -> w.daily_users
                         [] w.traffic_period = "Weekly" -> w.weekly_users \div 7
                         [] OTHER -> w.monthly_users \div 30
        branch == IF superiority /\ expected_lift.some
                  THEN IF w.primary_metric \in RateMetrics
                       THEN "proportions" ELSE "placeholder"
                  ELSE IF ~superiority /\ non_inferiority_margin.some
                       THEN "non_inferiority" ELSE "unset"
        call == CASE branch = "proportions" ->
                        calculate_proportions(w.baseline_value,
                            w.baseline_value + expected_lift.v, w.alpha, w.power)
                  [] branch = "non_inferiority" ->
                        calculate_non_inferiority(w.baseline_value,
                            non_inferiority_margin.v, w.alpha, w.power)
                  [] branch = "placeholder" -> Return(Placeholder)
                  [] OTHER -> NoResult
        sample_size == IF call.kind = "return" THEN Some(call.n) ELSE None
        fd9 == CASE branch = "proportions" ->
                        set_form_data(
                            set_form_data(fd8, "calculated_sample_size",
                                          sample_size),
                            "treatment_rate",
                            Some(w.baseline_value + expected_lift.v))
                 [] branch = "non_inferiority" ->
                        set_form_data(
                            set_form_data(fd8, "calculated_sample_size",
                                          sample_size),
                            "min_acceptable_rate",
                            Some(w.baseline_value - non_inferiority_margin.v))
                 [] OTHER -> fd8
        runtime == IF sample_size.some
                   THEN Some(estimate_runtime(sample_size.v * 2, daily_users))
                   ELSE None
        fd10 == IF sample_size.some
                THEN set_form_data(
                         set_form_data(fd9, "estimated_runtime", runtime),
                         "daily_users_calculated", Some(daily_users))
                ELSE fd9
        quick == sample_size.some /\ ~(runtime.v > 30) /\ runtime.v < 7
    IN  IF call.kind = "raise"
        THEN [form_data |-> fd8, result |-> Aborted(call.exc)]
        ELSE [form_data |-> fd10,
              result |-> Rendered(sample_size,
                                  branch \in {"proportions", "non_inferiority"},
                                  runtime, quick)]

\* SessionManager.update_form_data: dict.update
update_form_data(fd, data_dict) ==
    [k \in DOMAIN fd \cup DOMAIN data_dict |->
        IF k \in DOMAIN data_dict THEN data_dict[k] ELSE fd[k]]

\* "if not saved_sample_size": None and 0 are both false
falsy(x) == ~x.some \/ x.v = 0

\* the required-field test with "and" in place of "or"
generate_final_design_any_field(w, fd) ==
    LET saved_sample_size == get_form_data(fd, "calculated_sample_size", None)
        saved_runtime == get_form_data(fd, "estimated_runtime", None)
        saved_daily_users == get_form_data(fd, "daily_users_calculated", None)
        superiority == w.test_type = "Superiority Test"
        final_form_data ==
            [experiment_name |-> Some(w.experiment_name),
             feature_description |-> Some(w.feature_description),
             hypothesis |-> Some(w.hypothesis),
             test_type |-> Some(w.test_type),
             primary_metric |-> Some(w.primary_metric),
             baseline_value |-> Some(w.baseline_value),
             expected_lift |-> IF superiority THEN w.expected_lift ELSE None,
             non_inferiority_margin |->
                 IF ~superiority THEN w.non_inferiority_margin ELSE None,
             traffic_period |-> get_form_data(fd, "traffic_period", Some("Daily")),
             daily_users |-> IF falsy(saved_daily_users)
                             THEN Some(0) ELSE saved_daily_users,
             calculated_sample_size |-> saved_sample_size,
             estimated_runtime |-> saved_runtime]
    IN  IF w.experiment_name = "" /\ w.feature_description = ""
              /\ w.hypothesis = ""
        THEN [form_data |-> fd, final_design |-> "missing fields"]
        ELSE IF falsy(saved_sample_size)
        THEN [form_data |-> fd, final_design |-> "missing sample size"]
        ELSE [form_data |-> update_form_data(fd, final_form_data),
              final_design |-> "generated"]

(***************************************************************************)
(* The "Generate Final Design" button, over the widget values w and the    *)
(* form data fd the run has saved before it reaches the button: an error   *)
(* and return, or the final design written to form_data and the PDF.       *)
(***************************************************************************)
generate_final_design(w, fd) ==
    LET saved_sample_size == get_form_data(fd, "calculated_sample_size", None)
        saved_runtime == get_form_data(fd, "estimated_runtime", None)
        saved_daily_users == get_form_data(fd, "daily_users_calculated", None)
        superiority == w.test_type = "Superiority Test"
        final_form_data ==
            [experiment_name |-> Some(w.experiment_name),
             feature_description |-> Some(w.feature_description),
             hypothesis |-> Some(w.hypothesis),
             test_type |-> Some(w.test_type),
             primary_metric |-> Some(w.primary_metric),
             baseline_value |-> Some(w.baseline_value),
             expected_lift |-> IF superiority THEN w.expected_lift ELSE None,
             non_inferiority_margin |->
                 IF ~superiority THEN w.non_inferiority_margin ELSE None,
             traffic_period |-> get_form_data(fd, "traffic_period", Some("Daily")),
             daily_users |-> IF falsy(saved_daily_users)
                             THEN Some(0) ELSE saved_daily_users,
             calculated_sample_size |-> saved_sample_size,
             estimated_runtime |-> saved_runtime]
    IN  IF w.experiment_name = "" \/ w.feature_description = ""
              \/ w.hypothesis = ""
        THEN [form_data |-> fd, final_design |-> "missing fields"]
        ELSE IF falsy(saved_sample_size)
        THEN [form_data |-> fd, final_design |-> "missing sample size"]
        ELSE [form_data |-> update_form_data(fd, final_form_data),
              final_design |-> "generated"]

\* the page is opened: no widget has a state yet
DesignerOpen ==
    LET w == fresh_widgets(form_data)
        run == experiment_designer(w, form_data)
    IN  /\ op = "none"
        /\ op' = "experiment_designer"
        /\ args' = w
        /\ result' = run.result
        /\ form_data' = run.form_data
        /\ UNCHANGED calculator_state

\* the widget values the user can reach by changing one widget of a
\* section
metric_changed(w) ==
    {[w EXCEPT !.primary_metric = m] : m \in DesignerMetrics}

\* changing the test type replaces the lift widget by the margin widget or
\* back, the new widget starting from form_data
test_type_changed(w, fd) ==
    {[w EXCEPT !.test_type = t,
               !.expected_lift =
                   IF t = "Superiority Test"
                   THEN get_form_data(fd, "expected_lift", Some(120))
                   ELSE None,
               !.non_inferiority_margin =
                   IF t = "Superiority Test" THEN None
                   ELSE get_form_data(fd, "non_inferiority_margin",
                                      Some(100))] :
        t \in TestTypes \ {w.test_type}}

threshold_changed(w) ==
    IF w.test_type = "Superiority Test"
    THEN {[w EXCEPT !.expected_lift = Some(l)] : l \in DesignerLifts}
    ELSE {[w EXCEPT !.non_inferiority_margin = Some(m)] : m \in DesignerMargins}

traffic_changed(w) ==
    {[w EXCEPT !.traffic_period = t] : t \in TrafficPeriods}
    \cup (CASE w.traffic_period = "Daily" ->
                   {[w EXCEPT !.daily_users = u] : u \in DailyUsers}
            [] w.traffic_period = "Weekly" ->
                   {[w EXCEPT !.weekly_users = u] : u \in WeeklyUsers}
            [] OTHER ->
                   {[w EXCEPT !.monthly_users = u] : u \in MonthlyUsers})

text_changed(w) ==
    {[w EXCEPT !.experiment_name = t] : t \in Texts}
    \cup {[w EXCEPT !.feature_description = t] : t \in Texts}
    \cup {[w EXCEPT !.hypothesis = t] : t \in Texts}

\* the metric, test and traffic sections
one_widget_changed(w, fd) ==
    metric_changed(w)
    \cup {[w EXCEPT !.baseline_value = b] : b \in DesignerBaselines}
    \cup test_type_changed(w, fd)
    \cup threshold_changed(w)
    \cup traffic_changed(w)

\* the required text fields, the choice of the test and the daily users,
\* the traffic period staying "Daily"
one_field_changed(w, fd) ==
    text_changed(w)
    \cup metric_changed(w)
    \cup test_type_changed(w, fd)
    \cup threshold_changed(w)
    \cup {[w EXCEPT !.daily_users = u] : u \in DailyUsers}

\* the user changes one widget and the script runs again
DesignerChange ==
    /\ op = "experiment_designer"
    /\ \E w \in one_widget_changed(args, form_data) \ {args} :
           LET run == experiment_designer(w, form_data)
           IN  /\ op' = "experiment_designer"
               /\ args' = w
               /\ result' = run.result
               /\ form_data' = run.form_data
               /\ UNCHANGED calculator_state

\* the user edits a text field or a widget of the test and the script runs
\* again
DesignerEdit ==
    /\ op = "experiment_designer"
    /\ \E w \in one_field_changed(args, form_data) \ {args} :
           LET run == experiment_designer(w, form_data)
           IN  /\ op' = "experiment_designer"
               /\ args' = w
               /\ result' = run.result
               /\ form_data' = run.form_data
               /\ UNCHANGED calculator_state

\* the user clicks "Generate Final Design": the script runs again with the
\* same widget values and, unless the calculator ends the run, reaches the
\* button
DesignerGenerate ==
    /\ op = "experiment_designer"
    /\ LET run == experiment_designer(args, form_data)
           final == generate_final_design(args, run.form_data)
       IN  /\ op' = "experiment_designer"
           /\ args' = args
           /\ IF run.result.kind = "raise"
              THEN /\ result' = run.result
                   /\ form_data' = run.form_data
              ELSE /\ result' = [run.result EXCEPT
                                    !.final_design = final.final_design]
                   /\ form_data' = final.form_data
           /\ UNCHANGED calculator_state

\* the user goes to another page: the widgets of this page lose their state
DesignerLeave ==
    /\ op = "experiment_designer"
    /\ op' = "none"
    /\ args' = [none |-> 0]
    /\ result' = NoResult
    /\ UNCHANGED <<form_data, calculator_state>>

NextDesigner ==
    \/ DesignerOpen
    \/ DesignerChange
    \/ DesignerLeave

SpecDesigner == Init /\ [][NextDesigner]_vars

\* the required fields, the test and the submission of the final design
NextFinalDesign ==
    \/ DesignerOpen
    \/ DesignerEdit
    \/ DesignerGenerate
    \/ DesignerLeave

SpecFinalDesign == Init /\ [][NextFinalDesign]_vars

(***************************************************************************)
(* sample_size_calculator: the calculator page.  Its widgets have no key   *)
(* and no value taken from the session, so a widget that a run does not    *)
(* create starts again from its default; alpha and power stay at the       *)
(* values the page starts with.  Rates are in 1/100 of a point.            *)
(***************************************************************************)
CalculatorTestTypes == {"Two-Proportion Z-Test", "Continuous Metric T-Test", "Non-Inferiority Test"}

CalculatorLifts == {0, 100, 120}

CalculatorMeanLifts == {0, 5}

CalculatorStds == {0, 20}

CalculatorMargins == {0, 100, 200}

\* the widgets of the test section at their defaults, for test type t
default_inputs(t) ==
    [test_type |-> t, alpha |-> 500, power |-> 8000,
     baseline_rate |-> 7500, expected_lift |-> 120,
     baseline_mean |-> 100, mean_lift |-> 5, std |-> 20, delta |-> 100,
     traffic_period |-> "Daily", traffic_volume |-> 12000,
     weekly_traffic |-> 84000, monthly_traffic |-> 360000]

\* the widgets of the runtime section at their defaults
default_traffic(w) ==
    [w EXCEPT !.traffic_period = "Daily", !.traffic_volume = 12000,
              !.weekly_traffic = 84000, !.monthly_traffic = 360000]

\* what a run of the page leaves on the screen
CalculatorRendered(calculated, shown, runtime, quick) ==
    [kind |-> "rendered", exc |-> "", n |-> 0, calculated |-> calculated,
     runtime_shown |-> shown, runtime |-> runtime, quick_experiment |-> quick]

CalculatorAborted(e) ==
    [kind |-> "raise", exc |-> e, n |-> 0, calculated |-> FALSE,
     runtime_shown |-> FALSE, runtime |-> None, quick_experiment |-> FALSE]

\* the formula the "Calculate Sample Size" button of test type w.test_type
\* calls
calculator_formula(w) ==
    CASE w.test_type = "Two-Proportion Z-Test" ->
             calculate_proportions(w.baseline_rate,
                 w.baseline_rate + w.expected_lift, w.alpha, w.power)
      [] w.test_type = "Continuous Metric T-Test" ->
             calculate_continuous(w.baseline_mean, w.baseline_mean + w.mean_lift,
                                  w.std, w.alpha, w.power)
      [] OTHER ->
             calculate_non_inferiority(w.baseline_rate, w.delta, w.alpha,
                                       w.power)

(***************************************************************************)
(* One run of sample_size_calculator over the widget values w, with the    *)
(* button clicked or not and the session values sample_size and test_type. *)
(* The value is the session values after the run and what was rendered.    *)
(* An exception of the calculator ends the run before the runtime section. *)
(***************************************************************************)
sample_size_calculator(w, clicked, sample_size, test_type) ==
    LET changed == ~test_type.some \/ test_type.v # w.test_type
        size1 == IF changed THEN None ELSE sample_size
        call == IF clicked THEN calculator_formula(w) ELSE NoResult
        size2 == IF call.kind = "return" THEN Some(call.n) ELSE size1
        daily_traffic ==
            CASE w.traffic_period = "Daily" -> w.traffic_volume
              [] w.traffic_period = "Weekly" -> w.weekly_traffic \div 7
              [] OTHER -> w.monthly_traffic \div 30
        runtime == IF size2.some
                   THEN Some(estimate_runtime(size2.v * 2, daily_traffic))
                   ELSE None
        quick == size2.some /\ ~(runtime.v > 30) /\ runtime.v < 7
    IN  [calculator_sample_size |-> size2,
         calculator_test_type |-> Some(w.test_type),
         result |-> IF call.kind = "raise"
                    THEN CalculatorAborted(call.exc)
                    ELSE CalculatorRendered(call.kind = "return", size2.some,
                                            runtime, quick)]

\* the run of the page with widget values w; the widgets of a runtime
\* section that is not rendered lose their state
calculator_run(w, clicked) ==
    LET run == sample_size_calculator(w, clicked, calculator_sample_size,
                                      calculator_test_type)
    IN  /\ op' = "sample_size_calculator"
        /\ args' = IF run.result.runtime_shown THEN w ELSE default_traffic(w)
        /\ result' = run.result
        /\ calculator_sample_size' = run.calculator_sample_size
        /\ calculator_test_type' = run.calculator_test_type
        /\ UNCHANGED form_data

\* the page is opened: every widget starts from its default
CalculatorOpen ==
    /\ op = "none"
    /\ calculator_run(default_inputs("Two-Proportion Z-Test"), FALSE)

\* the widget values the user can reach by changing one widget; another
\* test type or traffic period brings its own input widgets, at their
\* defaults
calculator_widget_changed(w, shown) ==
    {[default_inputs(t) EXCEPT !.traffic_period = w.traffic_period,
                               !.traffic_volume = w.traffic_volume,
                               !.weekly_traffic = w.weekly_traffic,
                               !.monthly_traffic = w.monthly_traffic] :
        t \in CalculatorTestTypes \ {w.test_type}}
    \cup (IF w.test_type = "Continuous Metric T-Test"
          THEN {}
          ELSE {[w EXCEPT !.baseline_rate = b] : b \in DesignerBaselines})
    \cup (CASE w.test_type = "Two-Proportion Z-Test" ->
                   {[w EXCEPT !.expected_lift = l] : l \in CalculatorLifts}
            [] w.test_type = "Continuous Metric T-Test" ->
                   {[w EXCEPT !.mean_lift = l] : l \in CalculatorMeanLifts}
                   \cup {[w EXCEPT !.std = d] : d \in CalculatorStds}
            [] OTHER ->
                   {[w EXCEPT !.delta = m] : m \in CalculatorMargins})
    \cup (IF shown
          THEN {[default_traffic(w) EXCEPT !.traffic_period = t] :
                   t \in TrafficPeriods \ {w.traffic_period}}
               \cup (CASE w.traffic_period = "Daily" ->
                            {[w EXCEPT !.traffic_volume = u] : u \in DailyUsers}
                       [] w.traffic_period = "Weekly" ->
                            {[w EXCEPT !.weekly_traffic = u] : u \in WeeklyUsers}
                       [] OTHER ->
                            {[w EXCEPT !.monthly_traffic = u] :
                                u \in MonthlyUsers})
          ELSE {})

\* the user changes one widget and the script runs again
CalculatorChange ==
    /\ op = "sample_size_calculator"
    /\ \E w \in calculator_widget_changed(args, result.runtime_shown) \ {args} :
           calculator_run(w, FALSE)

\* the user clicks "Calculate Sample Size"
CalculatorCalculate ==
    /\ op = "sample_size_calculator"
    /\ calculator_run(args, TRUE)

\* the user goes to another page: the widgets of this page lose their state
CalculatorLeave ==
    /\ op = "sample_size_calculator"
    /\ op' = "none"
    /\ args' = [none |-> 0]
    /\ result' = NoResult
    /\ UNCHANGED <<form_data, calculator_state>>

NextCalculatorPage ==
    \/ CalculatorOpen
    \/ CalculatorChange
    \/ CalculatorCalculate
    \/ CalculatorLeave

SpecCalculatorPage == Init /\ [][NextCalculatorPage]_vars

(***************************************************************************)
(* C1: estimate_runtime(sample_size, daily_users) is the ceiling of        *)
(* sample_size / daily_users when daily_users > 0 (the least integer r     *)
(* with r * daily_users >= sample_size) and 0 when daily_users <= 0; it is *)
(* 0 for sample_size = 0 and never negative for sample_size >= 0.          *)
(***************************************************************************)
RuntimeIsCeiling ==
    op = "estimate_runtime" =>
        /\ result.kind = "return"
        /\ args.daily_users > 0 =>
              /\ result.n * args.daily_users >= args.sample_size
              /\ (result.n - 1) * args.daily_users < args.sample_size
        /\ args.daily_users <= 0 => result.n = 0
        /\ (args.sample_size = 0 /\ args.daily_users > 0) => result.n = 0
        /\ args.sample_size >= 0 => result.n >= 0

RuntimeRoundedUp ==
    /\ op = "estimate_runtime"
    /\ args.daily_users > 1
    /\ args.sample_size % args.daily_users # 0
    /\ result.n = (args.sample_size \div args.daily_users) + 1

(***************************************************************************)
(* Shorthands of the claims.                                               *)
(***************************************************************************)
Displayed == op = "perform_analysis" /\ result.kind = "displayed"

Significant == Less(result.p_value, args.alpha)

RunLonger == "RUN LONGER - Inconclusive results"

(***************************************************************************)
(* C2: in a superiority analysis the recommendation is IMPLEMENT exactly   *)
(* when p_value < alpha and the effect meets the MDE, CONSIDER exactly     *)
(* when p_value < alpha and it does not, DON'T IMPLEMENT exactly when      *)
(* p_value is not below alpha; it is always one of the three.              *)
(***************************************************************************)
SuperiorityRecommendation ==
    (Displayed /\ args.experiment_type = "Superiority") =>
        LET meets == Abs(result.effect_size) >= args.mde.v
            r == result.recommendation
        IN  /\ r = "IMPLEMENT - Significant and meaningful effect"
                  <=> (Significant /\ meets)
            /\ r = "CONSIDER - Significant but may not be meaningful"
                  <=> (Significant /\ ~meets)
            /\ r = "DON'T IMPLEMENT - No significant effect detected"
                  <=> ~Significant
            /\ r \in {"IMPLEMENT - Significant and meaningful effect",
                      "CONSIDER - Significant but may not be meaningful",
                      "DON'T IMPLEMENT - No significant effect detected"}

(***************************************************************************)
(* C3: in a non-inferiority analysis the recommendation is IMPLEMENT       *)
(* exactly when p_value < alpha and the effect is within the margin,       *)
(* DON'T IMPLEMENT (treatment is inferior) exactly when p_value < alpha    *)
(* and it is not, and DON'T IMPLEMENT (non-inferiority not demonstrated)   *)
(* exactly when p_value is not below alpha.                                *)
(***************************************************************************)
NonInferiorityRecommendation ==
    (Displayed /\ args.experiment_type = "Non-inferiority") =>
        LET within == result.effect_size > -args.non_inferiority_margin.v
            r == result.recommendation
        IN  /\ r = "IMPLEMENT - Non-inferiority demonstrated"
                  <=> (Significant /\ within)
            /\ r = "DON'T IMPLEMENT - Treatment is inferior"
                  <=> (Significant /\ ~within)
            /\ r = "DON'T IMPLEMENT - Non-inferiority not demonstrated"
                  <=> ~Significant

NonInferiorityImplemented ==
    /\ Displayed
    /\ args.experiment_type = "Non-inferiority"
    /\ result.p_value.k = "num"
    /\ result.p_value.v < args.alpha
    /\ result.effect_size < 0
    /\ result.recommendation = "IMPLEMENT - Non-inferiority demonstrated"

(***************************************************************************)
(* C4: the RUN LONGER recommendation is never produced, whatever p_value   *)
(* perform_analysis computes from inputs the form accepts.                 *)
(***************************************************************************)
RunLongerNeverProduced ==
    Displayed => result.recommendation # RunLonger

(***************************************************************************)
(* C5: calculate_proportions with p1 = p2 gives an explicit invalid-input  *)
(* result: no number and no raised arithmetic fault.                       *)
(***************************************************************************)
EqualProportionsInvalid ==
    (op = "calculate_proportions" /\ args.p1 = args.p2) =>
        result.kind = "invalid"

(***************************************************************************)
(* C6: calculate_non_inferiority gives an invalid-input result for every   *)
(* delta <= 0: no fault for delta = 0, no sample size for delta < 0.       *)
(***************************************************************************)
NonPositiveDeltaInvalid ==
    (op = "calculate_non_inferiority" /\ args.delta <= 0) =>
        result.kind = "invalid"

(***************************************************************************)
(* C7: calculate_continuous gives an invalid-input result for every        *)
(* std <= 0: no fault for std = 0, no sample size for std < 0.             *)
(***************************************************************************)
NonPositiveStdInvalid ==
    (op = "calculate_continuous" /\ args.std <= 0) =>
        result.kind = "invalid"

(***************************************************************************)
(* C8: a sample-size calculation on a probability outside (0,1) gives an   *)
(* invalid-input result: no sample size and no domain fault.               *)
(***************************************************************************)
OutOfRange(p) == p <= 0 \/ p >= FP

OutOfRangeProbabilityInvalid ==
    /\ (op = "calculate_proportions"
            /\ (OutOfRange(args.p1) \/ OutOfRange(args.p2)))
          => result.kind = "invalid"
    /\ (op = "calculate_non_inferiority"
            /\ (OutOfRange(args.p1) \/ OutOfRange(args.p1 - args.delta)))
          => result.kind = "invalid"

(***************************************************************************)
(* C9: perform_analysis gives an invalid-input result, and no statistic,   *)
(* when a success count exceeds its sample size, a sample size is not      *)
(* positive or a standard deviation is not positive.                       *)
(***************************************************************************)
InvalidAnalysisInput ==
    \/ args.control_n <= 0
    \/ args.treatment_n <= 0
    \/ /\ args.primary_metric = "App Rate"
       /\ \/ args.control_data > args.control_n
          \/ args.treatment_data > args.treatment_n
    \/ /\ args.primary_metric # "App Rate"
       /\ (args.control_std <= 0 \/ args.treatment_std <= 0)

AnalysisInputValidated ==
    (op = "perform_analysis" /\ InvalidAnalysisInput) =>
        result.kind = "invalid"

(***************************************************************************)
(* C10: a continuous analysis with n_c + n_t - 2 < 1 gives an              *)
(* invalid-input result instead of dividing by zero.                       *)
(***************************************************************************)
DegreesOfFreedomValidated ==
    (/\ op = "perform_analysis"
     /\ args.primary_metric # "App Rate"
     /\ args.control_n + args.treatment_n - 2 < 1) =>
        result.kind = "invalid"

\* an analysis was rendered, by the page or by a direct call
Shown == result.kind = "displayed"

(***************************************************************************)
(* C11: display_results shows Significant exactly when p_value < alpha,    *)
(* strictly (a p_value equal to alpha, and a nan, are Not Significant),    *)
(* and the delta label of the P-value metric always agrees with the        *)
(* Decision metric.                                                        *)
(***************************************************************************)
SignificantIffBelowAlpha ==
    Shown =>
        /\ result.significance_decision = "Significant"
              <=> (result.p_value.k = "num" /\ result.p_value.v < args.alpha)
        /\ result.significance_decision \in {"Significant", "Not Significant"}
        /\ result.p_value_delta = result.significance_decision

\* a p_value equal to alpha was displayed as Not Significant
PValueAtAlphaNotSignificant ==
    /\ op = "display_results"
    /\ Shown
    /\ result.p_value = Num(args.alpha)
    /\ result.significance_decision = "Not Significant"
    /\ result.p_value_delta = "Not Significant"

(***************************************************************************)
(* C12: in a superiority analysis Meets MDE is Yes exactly when            *)
(* |effect_size| >= MDE (an effect equal to MDE or to -MDE meets it), and  *)
(* No when no MDE was supplied.                                            *)
(***************************************************************************)
MeetsMdeIffAbsEffectAtLeastMde ==
    (Shown /\ args.experiment_type = "Superiority") =>
        (result.meets_mde
            <=> /\ args.mde.some
                /\ \/ result.effect_size >= args.mde.v
                   \/ result.effect_size <= -args.mde.v)

\* a negative effect of exactly -MDE was displayed as meeting the MDE
NegativeEffectAtMdeMeets ==
    /\ Shown
    /\ args.experiment_type = "Superiority"
    /\ args.mde.some
    /\ result.effect_size = -args.mde.v
    /\ result.meets_mde

(***************************************************************************)
(* C13: in a non-inferiority analysis Within Margin is Yes exactly when    *)
(* effect_size > -margin, strictly (an effect equal to -margin is not      *)
(* within the margin), and No when no margin was supplied.                 *)
(***************************************************************************)
WithinMarginIffAboveMinusMargin ==
    (Shown /\ args.experiment_type = "Non-inferiority") =>
        (result.within_margin
            <=> /\ args.non_inferiority_margin.some
                /\ result.effect_size + args.non_inferiority_margin.v > 0)

\* an effect of exactly -margin was displayed as not within the margin
EffectAtMarginNotWithin ==
    /\ Shown
    /\ args.experiment_type = "Non-inferiority"
    /\ args.non_inferiority_margin.some
    /\ result.effect_size = -args.non_inferiority_margin.v
    /\ ~result.within_margin

(***************************************************************************)
(* C17: a superiority analysis of a proportion metric with identical       *)
(* success counts and identical sample sizes in the two groups (an effect  *)
(* of 0) has p_value 0.5, for every such input the form accepts, all       *)
(* failures and all successes in both groups included.                     *)
(***************************************************************************)
IdenticalGroupsPValueHalf ==
    (/\ op = "perform_analysis"
     /\ args.experiment_type = "Superiority"
     /\ args.primary_metric = "App Rate"
     /\ args.control_n = args.treatment_n
     /\ args.control_data = args.treatment_data)
        => /\ Shown
           /\ result.effect_size = 0
           /\ result.p_value = Num(FP \div 2)

\* the preconditions of the sample-size functions
ValidProportions ==
    /\ op = "calculate_proportions"
    /\ args.p1 > 0 /\ args.p1 < FP
    /\ args.p2 > 0 /\ args.p2 < FP
    /\ args.p1 # args.p2

ValidContinuous ==
    /\ op = "calculate_continuous"
    /\ args.std > 0
    /\ args.mean1 # args.mean2

ValidNonInferiority ==
    /\ op = "calculate_non_inferiority"
    /\ args.p1 > 0 /\ args.p1 < FP
    /\ args.delta > 0
    /\ args.p1 - args.delta > 0

ValidSampleSizeCall ==
    ValidProportions \/ ValidContinuous \/ ValidNonInferiority

(***************************************************************************)
(* C14: every sample size returned for valid inputs, alpha and power       *)
(* anywhere in (0, 1), is an integer >= 1 obtained by rounding up; 0 is    *)
(* never returned.                                                         *)
(***************************************************************************)
SampleSizeAtLeastOne ==
    ValidSampleSizeCall => (result.kind = "return" /\ result.n >= 1)

(***************************************************************************)
(* C15: calculate_proportions is symmetric in its two proportions: for     *)
(* valid p1 # p2 and any alpha and power, exchanging p1 and p2 gives the   *)
(* same sample size.                                                       *)
(***************************************************************************)
ProportionsSymmetric ==
    ValidProportions =>
        /\ result.kind = "return"
        /\ calculate_proportions(args.p2, args.p1, args.alpha, args.power)
               = result

\* a sample size was computed for proportions of different variance
UnequalVariancePairSized ==
    /\ ValidProportions
    /\ args.p1 + args.p2 # FP
    /\ result.kind = "return"
    /\ result.n > 1

(***************************************************************************)
(* C16: for fixed valid p1 # p2 the sample size of calculate_proportions   *)
(* does not decrease as alpha decreases, does not decrease as power        *)
(* increases, over the whole of alpha, power in (0, 1) (power below 0.5    *)
(* included), and does not increase as |p1 - p2| increases with the pooled *)
(* proportion fixed.                                                       *)
(***************************************************************************)
SampleSizeMonotone ==
    ValidProportions =>
        /\ result.kind = "return"
        /\ \A alpha \in WideAlphas :
              alpha < args.alpha =>
                  calculate_proportions(args.p1, args.p2, alpha,
                                        args.power).n >= result.n
        /\ \A power \in WidePowers :
              power > args.power =>
                  calculate_proportions(args.p1, args.p2, args.alpha,
                                        power).n >= result.n
        /\ \A q1 \in Baselines, lift \in Lifts :
              (/\ q1 > 0 /\ q1 < FP
               /\ q1 + lift > 0 /\ q1 + lift < FP
               /\ q1 + (q1 + lift) = args.p1 + args.p2
               /\ Abs(lift) > Abs(args.p1 - args.p2))
                  => calculate_proportions(q1, q1 + lift, args.alpha,
                                           args.power).n <= result.n

\* the call of the documented scenario 1
ScenarioOne ==
    /\ op = "calculate_proportions"
    /\ args = [p1 |-> 7500, p2 |-> 7620, alpha |-> 500, power |-> 8000]

\* n is within one percent of target
Approximately(n, target) == Abs(n - target) * 100 <= target

(***************************************************************************)
(* C20: calculate_proportions(0.75, 0.762, 0.05, 0.80) returns             *)
(* approximately 13,497 per group.                                         *)
(***************************************************************************)
ScenarioOneReturns13497 ==
    ScenarioOne => (result.kind = "return" /\ Approximately(result.n, 13497))

(***************************************************************************)
(* C20, amended: calculate_proportions(0.75, 0.762, 0.05, 0.80) returns    *)
(* approximately 20,108 per group.                                         *)
(***************************************************************************)
ScenarioOneReturns20108 ==
    ScenarioOne => (result.kind = "return" /\ Approximately(result.n, 20108))

\* scenario 1 was computed and returned a sample size
ScenarioOneComputed ==
    /\ ScenarioOne
    /\ result.kind = "return"
    /\ result.n > 0

(***************************************************************************)
(* C18: a runtime estimate is computed, shown and saved only when a sample *)
(* size was computed by SampleSizeCalculator for the current inputs; when  *)
(* none was computed (nothing set, a failed calculation, or a metric for   *)
(* which the designer calculates nothing) the runtime is withheld.         *)
(***************************************************************************)
RuntimeOnlyForComputedSampleSize ==
    (op = "experiment_designer" /\ ~result.computed) =>
        /\ result.runtime = None
        /\ ~result.quick_experiment

\* the call of the documented scenario 2
ScenarioTwo ==
    /\ op = "calculate_non_inferiority"
    /\ args = [p1 |-> 7500, delta |-> 100, alpha |-> 500, power |-> 8000]

(***************************************************************************)
(* C21: calculate_non_inferiority(0.75, 0.01, 0.05, 0.80) uses the         *)
(* one-sided z_alpha and returns a sample size greater than                *)
(* calculate_proportions(0.75, 0.74, 0.05, 0.80), the superiority          *)
(* calculation for the same gap.                                           *)
(***************************************************************************)
ScenarioTwoAboveSuperiority ==
    ScenarioTwo =>
        /\ result.kind = "return"
        /\ result.n > calculate_proportions(7500, 7400, 500, 8000).n

(***************************************************************************)
(* C21, amended: calculate_non_inferiority(0.75, 0.01, 0.05, 0.80) uses    *)
(* the one-sided z_alpha and returns a sample size smaller than            *)
(* calculate_proportions(0.75, 0.74, 0.05, 0.80).                          *)
(***************************************************************************)
ScenarioTwoBelowSuperiority ==
    ScenarioTwo =>
        /\ result.kind = "return"
        /\ calculate_proportions(7500, 7400, 500, 8000).kind = "return"
        /\ result.n < calculate_proportions(7500, 7400, 500, 8000).n

\* scenario 2 was computed and returned a sample size
ScenarioTwoComputed ==
    /\ ScenarioTwo
    /\ result.kind = "return"
    /\ result.n > 1

PositiveStandardError ==
    args.primary_metric = "App Rate" =>
        /\ args.control_data + args.treatment_data > 0
        /\ args.control_data + args.treatment_data
               < args.control_n + args.treatment_n

(***************************************************************************)
(* C22: in a superiority analysis 'CI Meets MDE' is Yes only when the      *)
(* confidence interval excludes zero and meets the MDE: whenever           *)
(* ci_lower <= 0 <= ci_upper the indicator is No.                          *)
(***************************************************************************)
CiMeetsMdeExcludesZero ==
    (/\ Displayed
     /\ args.experiment_type = "Superiority"
     /\ LessOrEqual(result.ci_lower, 0)
     /\ GreaterEq(result.ci_upper, 0))
        => ~result.ci_meets_mde

(***************************************************************************)
(* C27: in a non-inferiority analysis with margin > 0, alpha <= 0.5 and a  *)
(* positive standard error, p_value < alpha implies                        *)
(* effect_size > -margin, so the recommendation 'DON'T IMPLEMENT -         *)
(* Treatment is inferior' is never produced.                               *)
(***************************************************************************)
InferiorNeverProduced ==
    (/\ Displayed
     /\ args.experiment_type = "Non-inferiority"
     /\ args.non_inferiority_margin.v > 0
     /\ 2 * args.alpha <= FP
     /\ PositiveStandardError)
        => /\ Significant => result.effect_size > -args.non_inferiority_margin.v
           /\ result.recommendation # "DON'T IMPLEMENT - Treatment is inferior"

\* a treatment below the margin was analysed and reported as
\* non-inferiority not demonstrated
InferiorTreatmentNotDemonstrated ==
    /\ Displayed
    /\ args.experiment_type = "Non-inferiority"
    /\ args.non_inferiority_margin.v > 0
    /\ PositiveStandardError
    /\ result.effect_size <= -args.non_inferiority_margin.v
    /\ ~Significant
    /\ result.recommendation
           = "DON'T IMPLEMENT - Non-inferiority not demonstrated"

(***************************************************************************)
(* C28: in a superiority analysis with alpha <= 0.5 and a positive         *)
(* standard error, IMPLEMENT is produced only when effect_size > 0: a      *)
(* treatment worse than control by at least the MDE is never recommended.  *)
(***************************************************************************)
ImplementOnlyForPositiveEffect ==
    (/\ Displayed
     /\ args.experiment_type = "Superiority"
     /\ 2 * args.alpha <= FP
     /\ PositiveStandardError)
        => /\ result.recommendation
                  = "IMPLEMENT - Significant and meaningful effect"
                  => result.effect_size > 0
           /\ result.effect_size <= -args.mde.v
                  => result.recommendation
                         = "DON'T IMPLEMENT - No significant effect detected"

\* a treatment worse than control by at least the MDE was analysed and
\* not recommended
WorseTreatmentNotRecommended ==
    /\ Displayed
    /\ args.experiment_type = "Superiority"
    /\ PositiveStandardError
    /\ result.effect_size <= -args.mde.v
    /\ result.meets_mde
    /\ result.recommendation
           = "DON'T IMPLEMENT - No significant effect detected"

\* form_data holds a value other than None under key
Saved(key) == key \in DOMAIN form_data /\ form_data[key].some

(***************************************************************************)
(* C25: in experiment_designer, after any sequence of renders, whenever    *)
(* form_data holds both calculated_sample_size and estimated_runtime, the  *)
(* runtime is estimate_runtime(2 * calculated_sample_size,                 *)
(* daily_users_calculated): a sample size of one configuration is never    *)
(* combined with the runtime of another.                                   *)
(***************************************************************************)
SavedRuntimeMatchesSavedSampleSize ==
    (Saved("calculated_sample_size") /\ Saved("estimated_runtime")) =>
        /\ Saved("daily_users_calculated")
        /\ form_data["estimated_runtime"].v
               = estimate_runtime(2 * form_data["calculated_sample_size"].v,
                                  form_data["daily_users_calculated"].v)

(***************************************************************************)
(* C30: when the daily traffic is zero or negative, so that                *)
(* estimate_runtime returns 0, no quick experiment is reported: the        *)
(* 'Quick experiment' message is shown only for a runtime computed from    *)
(* positive traffic.                                                       *)
(***************************************************************************)
QuickExperimentOnlyForPositiveTraffic ==
    (op = "experiment_designer" /\ result.quick_experiment) =>
        /\ Saved("daily_users_calculated")
        /\ form_data["daily_users_calculated"].v > 0

\* a required text field of the design page is empty
RequiredFieldEmpty(w) ==
    w.experiment_name = "" \/ w.feature_description = "" \/ w.hypothesis = ""

(***************************************************************************)
(* C24: clicking 'Generate Final Design' while the experiment name, the    *)
(* feature description or the hypothesis is empty, or while no             *)
(* calculated_sample_size is saved in form_data, shows an error and        *)
(* returns: no PDF is generated and form_data is not updated with the      *)
(* final design.  The PDF is generated only when all three fields are      *)
(* non-empty and a sample size is saved.                                   *)
(***************************************************************************)
FinalDesignNeedsFieldsAndSampleSize ==
    [][(/\ op' = "experiment_designer"
        /\ result'.final_design # "not requested")
          => LET missing ==
                     \/ RequiredFieldEmpty(args')
                     \/ ~Saved("calculated_sample_size")
             IN  /\ missing => /\ result'.final_design
                                     \in {"missing fields", "missing sample size"}
                               /\ form_data' = form_data
                 /\ result'.final_design = "generated"
                       => /\ ~RequiredFieldEmpty(args')
                          /\ Saved("calculated_sample_size")
                          /\ form_data'["experiment_name"]
                                 = Some(args'.experiment_name)]_vars

\* the button was clicked with a sample size saved and a required field
\* empty, and the page showed the error
FinalDesignRefused ==
    /\ op = "experiment_designer"
    /\ result.final_design = "missing fields"
    /\ Saved("calculated_sample_size")
    /\ args.experiment_name # ""
    /\ args.hypothesis = ""

(***************************************************************************)
(* C26: after any sequence of renders and final-design submissions,        *)
(* form_data never holds a non-None expected_lift and a non-None           *)
(* non_inferiority_margin at the same time: saving one sets the other to   *)
(* None.                                                                   *)
(***************************************************************************)
LiftAndMarginExclusive ==
    ~(Saved("expected_lift") /\ Saved("non_inferiority_margin"))

\* a lift was saved after a margin had been saved, and the final design
\* was generated
LiftSavedMarginCleared ==
    /\ op = "experiment_designer"
    /\ result.final_design = "generated"
    /\ Saved("expected_lift")
    /\ "non_inferiority_margin" \in DOMAIN form_data
    /\ ~form_data["non_inferiority_margin"].some
    /\ Saved("min_acceptable_rate")

\* a run of the calculator page is on the screen
CalculatorPage == op = "sample_size_calculator"

(***************************************************************************)
(* C23: in sample_size_calculator, across any sequence of renders:         *)
(* selecting a test type other than the stored calculator_test_type resets *)
(* calculator_sample_size to None and stores the new type, so that after   *)
(* every render calculator_test_type is the selected test type and a       *)
(* non-None calculator_sample_size was computed by the formula of the      *)
(* selected test type; the runtime-estimation section is shown exactly     *)
(* when calculator_sample_size is not None, and stays shown on later       *)
(* renders until the test type changes.                                    *)
(***************************************************************************)
CalculatorSizeFollowsTestType ==
    /\ [](CalculatorPage =>
              /\ calculator_test_type = Some(args.test_type)
              /\ result.runtime_shown <=> calculator_sample_size.some)
    /\ [][(CalculatorPage /\ op' = "sample_size_calculator") =>
              /\ (args'.test_type # args.test_type /\ ~result'.calculated)
                     => calculator_sample_size' = None
              /\ calculator_sample_size'.some
                     => \/ /\ args'.test_type = args.test_type
                           /\ calculator_sample_size' = calculator_sample_size
                        \/ /\ calculator_formula(args').kind = "return"
                           /\ calculator_sample_size'
                                  = Some(calculator_formula(args').n)
              /\ (result.runtime_shown /\ args'.test_type = args.test_type)
                     => result'.runtime_shown]_vars

=============================================================================
